---- MODULE Spec2Model ----
(***************************************************************************)
(* A model of athena's TiramisuTree (from_annotations, interchange,        *)
(* get_candidate_sections, get_level_of_node) and of the sequential        *)
(* parallelization search (parallelize_first_legal_outermost).             *)
(*                                                                         *)
(* Iterator names are the integers 1..MaxNodes; Python's None is 0.        *)
(* A Python list is a sequence and a dict a function; in-place list        *)
(* updates are modelled in the order the code makes them.                  *)
(***************************************************************************)
EXTENDS Integers, Sequences, FiniteSets, TLC

\* ------------------------------------------------------------------ bounds
MaxNodes == 4
MaxCalls == 2
MaxRoots == 2
MaxCandidates == 2

None == 0
Nodes == 1..MaxNodes

\* ------------------------------------------------------- tree state
\* roots, iterators, computations: the fields of the TiramisuTree; built: a
\* tree has been returned. annotation is the argument of from_annotations.
\* op, arg1, arg2, status, result: the last call, its arguments, the exception
\* it raised ("ok" for none) and what it returned; pre: the tree before the
\* last interchange; calls: the interchange calls made; valid_calls: all of
\* them named two different iterators of the tree.
VARIABLES roots, iterators, computations, built,
          annotation, op, arg1, arg2, status, pre, result, calls, valid_calls

\* ------------------------------------------------------- search state
\* The locals of parallelize_first_legal_outermost: root_i is the position in
\* tree.roots, index the position in the root's candidates (from 0), pc the
\* place in the function. trials lists the is_legal() calls made and returned
\* is "None", "schedule" (the value of schedule), "raised" or "pending".
VARIABLES candidates_per_root, schedule, tmp_schedule, root_i, index, pc,
          trials, returned

treeVars == <<roots, iterators, computations, built,
              annotation, op, arg1, arg2, status, pre, result, calls, valid_calls>>

searchVars == <<candidates_per_root, schedule, tmp_schedule, root_i, index, pc,
                trials, returned>>

vars == <<treeVars, searchVars>>

\* ------------------------------------------------------- list helpers
Contains(s, x) == \E i \in 1..Len(s) : s[i] = x

\* list.index(x): the first position holding x
IndexOf(s, x) == CHOOSE i \in 1..Len(s) : s[i] = x /\ \A j \in 1..(i - 1) : s[j] # x

Count(s, x) == Cardinality({i \in 1..Len(s) : s[i] = x})

Range(s) == {s[i] : i \in 1..Len(s)}

\* [new if x == old else x for x in s]
Substitute(s, old, new) == [i \in 1..Len(s) |-> IF s[i] = old THEN new ELSE s[i]]

RECURSIVE Ascending(_)
Ascending(S) ==
    IF S = {} THEN <<>>
    ELSE LET m == CHOOSE x \in S : \A y \in S : x <= y
         IN <<m>> \o Ascending(S \ {m})

Reverse(s) == [i \in 1..Len(s) |-> s[Len(s) + 1 - i]]

Perms(S) ==
    {f \in [1..Cardinality(S) -> S] : \A i, j \in 1..Cardinality(S) : i # j => f[i] # f[j]}

\* ------------------------------------------------------- annotations
CompOf(k) == 100 + k

\* The parents of n entries: every entry has none (0) or an entry before it.
ParentMaps(n) == {p \in [1..n -> 0..(n - 1)] : \A k \in 1..n : p[k] < k}

\* A valid annotation's "iterators" dict: one entry per iterator, in dict
\* order; every entry with a parent names an entry that lists it exactly once
\* among its children. par gives each entry's parent, withComp the entries
\* that carry a computation, desc whether child lists are written in
\* descending order.
Annotation(n, par, withComp, desc, order) ==
    [order |-> order,
     iterators |->
        [k \in 1..n |->
            [parent_iterator |-> par[k],
             lower_bound |-> 0,
             upper_bound |-> k,
             child_iterators |->
                LET asc == Ascending({c \in 1..n : par[c] = k})
                IN IF desc THEN Reverse(asc) ELSE asc,
             computations_list |-> IF k \in withComp THEN <<CompOf(k)>> ELSE <<>>]]]

\* Dict orders of n entries: any order, and parents first.
AnyOrder(n) == Perms(1..n)

ParentsFirst(n) == {Ascending(1..n)}

\* ------------------------------------------------------- IteratorNode
\* A plain value: the constructor stores its arguments.
IteratorNode(name, parent_iterator, lower_bound, upper_bound, child_iterators, computations_list, level) ==
    [name |-> name,
     parent_iterator |-> parent_iterator,
     lower_bound |-> lower_bound,
     upper_bound |-> upper_bound,
     child_iterators |-> child_iterators,
     computations_list |-> computations_list,
     level |-> level]

\* ------------------------------------------------------- from_annotations
EmptyTree == [roots |-> <<>>, iterators |-> <<>>, computations |-> <<>>, status |-> "ok"]

\* One pass of the loop "for iterator in iterators" over the entries from
\* position i on; t is tiramisu_space so far.
RECURSIVE from_annotations_loop(_, _, _)
from_annotations_loop(annotations, i, t) ==
    IF i > Len(annotations.order) THEN t
    ELSE
        LET iterator == annotations.order[i]
            e == annotations.iterators[iterator]
            parent_iterator == e.parent_iterator
        IN IF parent_iterator # None /\ parent_iterator \notin DOMAIN t.iterators
           THEN [t EXCEPT !.status = "KeyError"]
           ELSE
             LET iterator_level ==
                    IF parent_iterator = None THEN 0
                    ELSE t.iterators[parent_iterator].level + 1
                 node == IteratorNode(iterator, e.parent_iterator, e.lower_bound,
                                      e.upper_bound, e.child_iterators,
                                      e.computations_list, iterator_level)
                 t2 == [roots |-> IF parent_iterator = None
                                  THEN Append(t.roots, iterator) ELSE t.roots,
                        iterators |-> [k \in DOMAIN t.iterators \cup {iterator} |->
                                          IF k = iterator THEN node ELSE t.iterators[k]],
                        computations |-> t.computations \o e.computations_list,
                        status |-> "ok"]
             IN from_annotations_loop(annotations, i + 1, t2)

from_annotations(annotations) == from_annotations_loop(annotations, 1, EmptyTree)

\* ------------------------------------------------------- get_level_of_node
\* The walk "while node.parent_iterator" from node_name, level counted so far.
\* fuel bounds the walk: parent links that form a cycle make the loop of the
\* code run forever, which is reported as Diverges.
Diverges == 0 - 1

RECURSIVE get_level_walk(_, _, _, _)
get_level_walk(its, node_name, level, fuel) ==
    IF its[node_name].parent_iterator = None THEN level
    ELSE IF fuel = 0 THEN Diverges
    ELSE get_level_walk(its, its[node_name].parent_iterator, level + 1, fuel - 1)

get_level_of_node(its, node_name) ==
    get_level_walk(its, node_name, 0, Cardinality(DOMAIN its))

\* ------------------------------------------------------- interchange
\* Lines 199-211: the slot that held node1 gets node2. s is the call's state
\* so far: the tree's roots and iterators, the two new nodes, and the
\* exception raised, if any.
interchange_slot1(s, node1, node2, node1_parent) ==
    IF node1_parent # None
    THEN IF node1_parent = node2
         THEN [s EXCEPT !.new_node1.child_iterators =
                            Substitute(s.new_node1.child_iterators, node1, node2)]
         ELSE IF node1_parent \notin DOMAIN s.iterators
              THEN [s EXCEPT !.status = "KeyError"]
         ELSE IF ~Contains(s.iterators[node1_parent].child_iterators, node1)
              THEN [s EXCEPT !.status = "ValueError"]
         ELSE [s EXCEPT !.iterators[node1_parent].child_iterators[
                            IndexOf(s.iterators[node1_parent].child_iterators, node1)] = node2]
    ELSE IF ~Contains(s.roots, node1)
         THEN [s EXCEPT !.status = "ValueError"]
         ELSE [s EXCEPT !.roots[IndexOf(s.roots, node1)] = node2]

\* Lines 213-226: the slot that held node2 gets node1.
interchange_slot2(s, node1, node2, node2_parent) ==
    IF node2_parent # None
    THEN IF node2_parent = node1
         THEN [s EXCEPT !.new_node2.child_iterators =
                            Substitute(s.new_node2.child_iterators, node2, node1)]
         ELSE IF node2_parent \notin DOMAIN s.iterators
              THEN [s EXCEPT !.status = "KeyError"]
         ELSE IF ~Contains(s.iterators[node2_parent].child_iterators, node2)
              THEN [s EXCEPT !.status = "ValueError"]
         ELSE [s EXCEPT !.iterators[node2_parent].child_iterators[
                            IndexOf(s.iterators[node2_parent].child_iterators, node2)] = node1]
    ELSE IF ~Contains(s.roots, node2)
         THEN [s EXCEPT !.status = "ValueError"]
         ELSE [s EXCEPT !.roots[IndexOf(s.roots, node2)] = node1]

\* Lines 228-229: the new nodes replace the old ones.
interchange_store(s, node1, node2) ==
    [s EXCEPT !.iterators =
        [k \in DOMAIN s.iterators |->
            IF k = node2 THEN s.new_node2
            ELSE IF k = node1 THEN s.new_node1
            ELSE s.iterators[k]]]

\* The whole call on a tree with roots rts and iterators its: the tree it
\* leaves and the exception it raised ("ok" for none). An exception leaves
\* what was written before it.
interchange(rts, its, node1, node2) ==
    IF node1 \notin DOMAIN its \/ node2 \notin DOMAIN its
    THEN [roots |-> rts, iterators |-> its, status |-> "KeyError"]
    ELSE
        LET node1_parent == its[node1].parent_iterator
            node2_parent == its[node2].parent_iterator
            new_node1_parent == IF node2_parent = node1 THEN node2 ELSE node2_parent
            new_node1 == IteratorNode(node1, new_node1_parent,
                                      its[node1].lower_bound, its[node1].upper_bound,
                                      its[node2].child_iterators,
                                      its[node2].computations_list,
                                      its[node2].level)
            new_node2_parent == IF node1_parent = node2 THEN node1 ELSE node1_parent
            new_node2 == IteratorNode(node2, new_node2_parent,
                                      its[node2].lower_bound, its[node2].upper_bound,
                                      its[node1].child_iterators,
                                      its[node1].computations_list,
                                      its[node1].level)
            s0 == [roots |-> rts, iterators |-> its,
                   new_node1 |-> new_node1, new_node2 |-> new_node2, status |-> "ok"]
            s1 == interchange_slot1(s0, node1, node2, node1_parent)
            s2 == IF s1.status = "ok"
                  THEN interchange_slot2(s1, node1, node2, node2_parent) ELSE s1
            s3 == IF s2.status = "ok" THEN interchange_store(s2, node1, node2) ELSE s2
        IN [roots |-> s3.roots, iterators |-> s3.iterators, status |-> s3.status]

\* ------------------------------------------------------- get_candidate_sections
\* The nodes reached from node n along child_iterators in at most k steps.
RECURSIVE Descendants(_, _, _)
Descendants(its, S, k) ==
    IF k = 0 THEN S
    ELSE Descendants(its, S \cup UNION {Range(its[n].child_iterators) : n \in S}, k - 1)

Below(its, n) ==
    Descendants(its, Range(its[n].child_iterators), Cardinality(DOMAIN its))

\* The loops of get_candidate_sections end iff no node reached from a root is
\* below itself.
ChildCycle(rts, its) ==
    \E n \in Descendants(its, Range(rts), Cardinality(DOMAIN its)) : n \in Below(its, n)

\* get_section_walk with the test on computations_list left out of the loop
\* condition.
RECURSIVE get_section_walk_through_computations(_, _, _)
get_section_walk_through_computations(its, current_node, candidate_section) ==
    IF Len(its[current_node].child_iterators) = 1
    THEN LET next_node_name == its[current_node].child_iterators[1]
         IN get_section_walk_through_computations(
                its, next_node_name, Append(candidate_section, next_node_name))
    ELSE [section |-> candidate_section,
          new_nodes_to_visit |-> its[current_node].child_iterators]

\* _get_section_of_node, from the while loop on: current_node and the section
\* so far.
RECURSIVE get_section_walk(_, _, _)
get_section_walk(its, current_node, candidate_section) ==
    IF Len(its[current_node].child_iterators) = 1
       /\ Len(its[current_node].computations_list) = 0
    THEN LET next_node_name == its[current_node].child_iterators[1]
         IN get_section_walk(its, next_node_name, Append(candidate_section, next_node_name))
    ELSE [section |-> candidate_section,
          new_nodes_to_visit |-> its[current_node].child_iterators]

get_section_of_node(its, node_name) == get_section_walk(its, node_name, <<node_name>>)

\* "for node in nodes_to_visit" from position i on, the list growing as it is
\* walked.
RECURSIVE visit_nodes(_, _, _, _)
visit_nodes(its, nodes_to_visit, i, list_candidate_sections) ==
    IF i > Len(nodes_to_visit) THEN list_candidate_sections
    ELSE LET r == get_section_of_node(its, nodes_to_visit[i])
         IN visit_nodes(its, nodes_to_visit \o r.new_nodes_to_visit, i + 1,
                        Append(list_candidate_sections, r.section))

\* The returned dict, keyed by root.
get_candidate_sections(rts, its) ==
    [root \in Range(rts) |-> visit_nodes(its, <<root>>, 1, <<>>)]

\* ------------------------------------------------------- Schedule
\* Schedule(program): no optimization yet, legality not asked yet.
Schedule == [optims_list |-> <<>>, legality |-> "unknown"]

\* schedule.copy(): an independent duplicate.
copy(sched) == [optims_list |-> sched.optims_list, legality |-> sched.legality]

\* schedule.add_optimization(action): appends and forgets the cached verdict.
add_optimization(sched, action) ==
    [optims_list |-> Append(sched.optims_list, action), legality |-> "unknown"]

\* schedule.is_legal() when the oracle answers verdict ("legal", "illegal"):
\* the cached verdict if there is one, the oracle's otherwise, then cached.
is_legal(sched, verdict) ==
    IF sched.legality = "unknown" THEN [sched EXCEPT !.legality = verdict] ELSE sched

\* ------------------------------------------------------- Parallelization
\* Parallelization(params=[index], comps=tree.get_candidate_computations(node)):
\* the computations are stood for by the node whose subtree holds them.
Parallelization(i, node) == [params |-> <<i>>, comps |-> node]

\* Parallelization.get_candidates(tree): for each root its candidates in
\* order, each a non-empty list of nodes. Roots are 1..r; the nodes of the
\* candidates are numbered apart, wide[root][c] telling whether candidate c
\* has two nodes or one.
CandidateNodes(root, c, isWide) ==
    IF isWide THEN <<100 * root + 10 * c + 1, 100 * root + 10 * c + 2>>
    ELSE <<100 * root + 10 * c + 1>>

\* ------------------------------------------------------- parallelize_first_legal_outermost
\* Lines 15-21: the optimizations of one candidate (at position i of
\* enumerate, from 0) appended to tmp, from node j of the candidate on.
RECURSIVE add_candidate(_, _, _, _)
add_candidate(tmp, i, candidate, j) ==
    IF j > Len(candidate) THEN tmp
    ELSE add_candidate(add_optimization(tmp, Parallelization(i, candidate[j])),
                       i, candidate, j + 1)

\* Lines 26-28: what the function returns for the schedule it ends with.
search_return_always_schedule(sched) == "schedule"

search_return(sched) ==
    IF sched.optims_list = <<>> THEN "None" ELSE "schedule"

\* ------------------------------------------------------- operations
NoTree == [roots |-> <<>>, iterators |-> <<>>]
NoAnnotation == [order |-> <<>>, iterators |-> <<>>]

NoCall ==
    /\ op = "new"
    /\ arg1 = None
    /\ arg2 = None
    /\ status = "ok"
    /\ pre = NoTree
    /\ result = <<>>
    /\ calls = 0
    /\ valid_calls = TRUE

\* No search is running.
NoSearch ==
    /\ candidates_per_root = <<>>
    /\ schedule = Schedule
    /\ tmp_schedule = Schedule
    /\ root_i = 0
    /\ index = 0
    /\ pc = "idle"
    /\ trials = <<>>
    /\ returned = "pending"

\* Before any tree is made.
NoTreeYet ==
    /\ roots = <<>>
    /\ iterators = <<>>
    /\ computations = <<>>
    /\ built = FALSE
    /\ annotation = NoAnnotation
    /\ NoCall

BuildInit == NoTreeYet /\ NoSearch

\* A tree as from_annotations returns it.
TreeInit ==
    /\ \E n \in 1..MaxNodes :
       \E par \in ParentMaps(n), withComp \in SUBSET (1..n), desc \in BOOLEAN,
          order \in ParentsFirst(n) :
          LET a == Annotation(n, par, withComp, desc, order)
              t == from_annotations(a)
          IN /\ annotation = a
             /\ roots = t.roots
             /\ iterators = t.iterators
             /\ computations = t.computations
    /\ built = TRUE
    /\ NoCall
    /\ NoSearch

\* The two names are different iterators of the tree.
ExistingDistinct(its, node1, node2) ==
    node1 \in DOMAIN its /\ node2 \in DOMAIN its /\ node1 # node2

\* tree = TiramisuTree.from_annotations(annotation); an exception leaves no tree.
FromAnnotations ==
    /\ op = "new"
    /\ \E n \in 1..MaxNodes :
       \E par \in ParentMaps(n), withComp \in SUBSET (1..n), desc \in BOOLEAN,
          order \in AnyOrder(n) :
          LET a == Annotation(n, par, withComp, desc, order)
              t == from_annotations(a)
          IN /\ annotation' = a
             /\ status' = t.status
             /\ IF t.status = "ok"
                THEN /\ roots' = t.roots
                     /\ iterators' = t.iterators
                     /\ computations' = t.computations
                     /\ built' = TRUE
                ELSE UNCHANGED <<roots, iterators, computations, built>>
    /\ op' = "from_annotations"
    /\ UNCHANGED <<arg1, arg2, pre, result, calls, valid_calls, searchVars>>

\* tree.interchange(node1, node2); pre is the tree before the call and
\* valid_calls whether every call so far named two different iterators of the
\* tree.
Interchange ==
    /\ built
    /\ calls < MaxCalls
    /\ \E node1 \in Nodes, node2 \in Nodes :
          LET t == interchange(roots, iterators, node1, node2)
          IN /\ roots' = t.roots
             /\ iterators' = t.iterators
             /\ status' = t.status
             /\ arg1' = node1
             /\ arg2' = node2
             /\ valid_calls' = (valid_calls /\ ExistingDistinct(iterators, node1, node2))
    /\ pre' = [roots |-> roots, iterators |-> iterators]
    /\ op' = "interchange"
    /\ result' = <<>>
    /\ calls' = calls + 1
    /\ UNCHANGED <<computations, built, annotation, searchVars>>

\* tree.get_level_of_node(node_name); "diverges" stands for the call that never
\* returns.
GetLevelOfNode ==
    /\ built
    /\ \E node_name \in Nodes :
          /\ arg1' = node_name
          /\ IF node_name \notin DOMAIN iterators
             THEN /\ result' = <<>>
                  /\ status' = "KeyError"
             ELSE IF get_level_of_node(iterators, node_name) = Diverges
             THEN /\ result' = <<>>
                  /\ status' = "diverges"
             ELSE /\ result' = <<get_level_of_node(iterators, node_name)>>
                  /\ status' = "ok"
    /\ op' = "get_level_of_node"
    /\ arg2' = None
    /\ pre' = NoTree
    /\ UNCHANGED <<roots, iterators, computations, built, annotation, calls, valid_calls, searchVars>>

\* tree.get_candidate_sections(), when it returns.
GetCandidateSections ==
    /\ built
    /\ ~ChildCycle(roots, iterators)
    /\ result' = get_candidate_sections(roots, iterators)
    /\ status' = "ok"
    /\ op' = "get_candidate_sections"
    /\ arg1' = None
    /\ arg2' = None
    /\ pre' = NoTree
    /\ UNCHANGED <<roots, iterators, computations, built, annotation, calls, valid_calls, searchVars>>

\* ------------------------------------------------------- search steps
\* The candidates of a program with r roots, k[root] candidates at each.
Candidates(r, k, wide) ==
    [root \in 1..r |-> [c \in 1..k[root] |-> CandidateNodes(root, c, wide[root][c])]]

\* Lines 9-10: an empty schedule and the candidates of the program's tree;
\* the roots of the tree are 1..Len(candidates_per_root), in order.
SearchInit ==
    /\ NoTreeYet
    /\ \E r \in 0..MaxRoots :
       \E k \in [1..r -> 1..MaxCandidates] :
       \E wide \in [1..r -> [1..MaxCandidates -> BOOLEAN]] :
          candidates_per_root = Candidates(r, k, wide)
    /\ schedule = Schedule
    /\ tmp_schedule = Schedule
    /\ root_i = 1
    /\ index = 0
    /\ pc = "root"
    /\ trials = <<>>
    /\ returned = "pending"

\* Lines 12-13: the next root; tmp_schedule is a copy of schedule.
NextRoot ==
    /\ pc = "root"
    /\ root_i <= Len(candidates_per_root)
    /\ tmp_schedule' = copy(schedule)
    /\ index' = 0
    /\ pc' = "candidate"
    /\ UNCHANGED <<candidates_per_root, schedule, root_i, trials, returned, treeVars>>

\* Line 12: no root is left.
RootsDone ==
    /\ pc = "root"
    /\ root_i > Len(candidates_per_root)
    /\ pc' = "return"
    /\ UNCHANGED <<candidates_per_root, schedule, tmp_schedule, root_i, index,
                   trials, returned, treeVars>>

\* The record of one trial: the root and candidate tried, the best schedule
\* then, the optimizations of the trial and the oracle's answer.
Trial(trial, verdict) ==
    [root |-> root_i, index |-> index, best |-> schedule.optims_list,
     optims_list |-> trial.optims_list, verdict |-> verdict]

\* tmp_schedule after lines 15-21 for the candidate at hand.
TrialSchedule ==
    add_candidate(tmp_schedule, index, candidates_per_root[root_i][index + 1], 1)

\* Lines 14-24, is_legal() true: tmp_schedule becomes schedule, and the loop
\* over this root's candidates is left.
CandidateLegal ==
    /\ pc = "candidate"
    /\ index < Len(candidates_per_root[root_i])
    /\ tmp_schedule' = is_legal(TrialSchedule, "legal")
    /\ schedule' = tmp_schedule'
    /\ trials' = Append(trials, Trial(TrialSchedule, "legal"))
    /\ root_i' = root_i + 1
    /\ pc' = "root"
    /\ UNCHANGED <<candidates_per_root, index, returned, treeVars>>

\* Lines 14-22, is_legal() false: on to the next candidate of the root.
CandidateIllegal ==
    /\ pc = "candidate"
    /\ index < Len(candidates_per_root[root_i])
    /\ tmp_schedule' = is_legal(TrialSchedule, "illegal")
    /\ trials' = Append(trials, Trial(TrialSchedule, "illegal"))
    /\ index' = index + 1
    /\ UNCHANGED <<candidates_per_root, schedule, root_i, pc, returned, treeVars>>

\* Lines 14-22, the oracle call of is_legal() raises: nothing catches it.
OracleFails ==
    /\ pc = "candidate"
    /\ index < Len(candidates_per_root[root_i])
    /\ tmp_schedule' = TrialSchedule
    /\ trials' = Append(trials, Trial(TrialSchedule, "fail"))
    /\ pc' = "raised"
    /\ returned' = "raised"
    /\ UNCHANGED <<candidates_per_root, schedule, root_i, index, treeVars>>

\* Line 14: the root has no candidate left.
CandidatesExhausted ==
    /\ pc = "candidate"
    /\ index >= Len(candidates_per_root[root_i])
    /\ root_i' = root_i + 1
    /\ pc' = "root"
    /\ UNCHANGED <<candidates_per_root, schedule, tmp_schedule, index, trials,
                   returned, treeVars>>

\* Lines 26-28.
Return ==
    /\ pc = "return"
    /\ returned' = search_return(schedule)
    /\ pc' = "done"
    /\ UNCHANGED <<candidates_per_root, schedule, tmp_schedule, root_i, index,
                   trials, treeVars>>

\* ------------------------------------------------------- specifications
\* A tree and the calls made on it.
Next == Interchange \/ GetLevelOfNode

Spec == TreeInit /\ [][Next]_vars

\* from_annotations on every valid annotation, in every entry order.
BuildNext == FromAnnotations \/ GetLevelOfNode

SpecBuild == BuildInit /\ [][BuildNext]_vars

\* get_candidate_sections on every tree from_annotations returns.
SectionsNext == GetCandidateSections

SpecSections == TreeInit /\ [][SectionsNext]_vars

\* parallelize_first_legal_outermost under every oracle.
SearchNext ==
    \/ NextRoot
    \/ RootsDone
    \/ CandidateLegal
    \/ CandidateIllegal
    \/ OracleFails
    \/ CandidatesExhausted
    \/ Return

SpecSearch == SearchInit /\ [][SearchNext]_vars

\* ------------------------------------------------------- well-formed trees
\* Parent and child links agree in both directions, and the nodes with no
\* parent are exactly the entries of roots.
LinksAgree(rts, its) ==
    /\ \A n \in DOMAIN its : \A c \in Range(its[n].child_iterators) :
          c \in DOMAIN its /\ its[c].parent_iterator = n
    /\ \A n \in DOMAIN its :
          its[n].parent_iterator # None =>
             /\ its[n].parent_iterator \in DOMAIN its
             /\ Count(its[its[n].parent_iterator].child_iterators, n) = 1
    /\ {n \in DOMAIN its : its[n].parent_iterator = None} = Range(rts)
    /\ \A n \in Range(rts) : Count(rts, n) = 1

\* The stored level is 0 without a parent and the parent's level + 1 with one,
\* and is the number of ancestors get_level_of_node counts.
LevelsAgree(its) ==
    \A n \in DOMAIN its :
       /\ its[n].level = IF its[n].parent_iterator = None THEN 0
                         ELSE its[its[n].parent_iterator].level + 1
       /\ its[n].level = get_level_of_node(its, n)

WellFormed(rts, its) == LinksAgree(rts, its) /\ LevelsAgree(its)

\* ------------------------------------------------------- C1
\* C1: after from_annotations and any sequence of interchange calls on
\* existing, distinct node ids, parent and child links agree in both
\* directions and the nodes with no parent are exactly the entries of roots.
C1_LinksAgreeAfterInterchange ==
    (built /\ valid_calls) => LinksAgree(roots, iterators)

\* ------------------------------------------------------- C2
\* C2: after from_annotations and any sequence of interchange calls on
\* existing, distinct node ids, every node's stored level is 0 without a
\* parent and its parent's stored level + 1 otherwise, the number of ancestors
\* get_level_of_node counts.
C2_LevelsAgreeAfterInterchange ==
    (built /\ valid_calls) => LevelsAgree(iterators)

\* ------------------------------------------------------- C3
\* C3: a call interchange(a, b) that fails leaves the tree exactly as it was
\* before the call.
C3_FailedInterchangeLeavesTree ==
    (op = "interchange" /\ status # "ok") =>
        (roots = pre.roots /\ iterators = pre.iterators)

\* ------------------------------------------------------- C9
\* The place of node n in a tree: the list that holds it (roots, or the
\* children of its parent) and its index there.
SlotOf(rts, its, n) ==
    LET p == its[n].parent_iterator
    IN [parent |-> p,
        index |-> IF p = None THEN IndexOf(rts, n)
                  ELSE IndexOf(its[p].child_iterators, n)]

\* The node held at a place of the tree.
HeldAt(rts, its, slot) ==
    IF slot.parent = None THEN rts[slot.index]
    ELSE its[slot.parent].child_iterators[slot.index]

\* A place of the tree before interchange(a, b), as it is named after the
\* call: the children of a are then the children of b, and those of b the
\* children of a.
SlotAfter(slot, a, b) ==
    [slot EXCEPT !.parent = IF slot.parent = a THEN b
                            ELSE IF slot.parent = b THEN a
                            ELSE slot.parent]

\* C9: after interchange(a, b) on two distinct existing nodes the slot that
\* held a holds b and the slot that held b holds a, also for siblings (in
\* either argument order) and for two roots.
C9_SlotsSwapped ==
    (op = "interchange" /\ status = "ok" /\ WellFormed(pre.roots, pre.iterators)
        /\ ExistingDistinct(pre.iterators, arg1, arg2)) =>
        LET slot_a == SlotOf(pre.roots, pre.iterators, arg1)
            slot_b == SlotOf(pre.roots, pre.iterators, arg2)
        IN /\ HeldAt(roots, iterators, SlotAfter(slot_a, arg1, arg2)) = arg2
           /\ HeldAt(roots, iterators, SlotAfter(slot_b, arg1, arg2)) = arg1

\* ------------------------------------------------------- C10
\* C10: on a well-formed tree, interchange(a, b) called twice in a row on two
\* distinct existing nodes restores roots and every node's parent, children,
\* computations and level.
C10_TwiceRestores ==
    (op = "interchange" /\ status = "ok" /\ WellFormed(pre.roots, pre.iterators)
        /\ ExistingDistinct(pre.iterators, arg1, arg2)) =>
        LET again == interchange(roots, iterators, arg1, arg2)
        IN /\ again.status = "ok"
           /\ again.roots = pre.roots
           /\ again.iterators = pre.iterators

\* ------------------------------------------------------- C7
\* C7: for every valid annotation, whatever the order of its entries,
\* from_annotations returns a tree whose roots are exactly the entries with no
\* parent, in which every non-root node is listed exactly once by its parent,
\* and in which every level is the number of ancestors.
C7_FromAnnotationsAnyOrder ==
    op = "from_annotations" =>
        /\ status = "ok"
        /\ built
        /\ DOMAIN iterators = DOMAIN annotation.iterators
        /\ Range(roots) =
              {k \in DOMAIN annotation.iterators :
                  annotation.iterators[k].parent_iterator = None}
        /\ \A n \in DOMAIN iterators :
              /\ iterators[n].parent_iterator = annotation.iterators[n].parent_iterator
              /\ iterators[n].parent_iterator # None =>
                    Count(iterators[iterators[n].parent_iterator].child_iterators, n) = 1
              /\ iterators[n].level = get_level_of_node(iterators, n)

\* ------------------------------------------------------- C8
RECURSIVE Concat(_)
Concat(ss) == IF ss = <<>> THEN <<>> ELSE Head(ss) \o Concat(Tail(ss))

Last(s) == s[Len(s)]

\* The sections listed for one root are a partition of its tree into maximal
\* linear chains, in breadth-first order of discovery.
SectionsPartition(its, root, secs) ==
    /\ Len(secs) >= 1
    /\ \A i \in 1..Len(secs) : Len(secs[i]) >= 1
    /\ secs[1][1] = root
    \* every node reached from the root is in exactly one section
    /\ Range(Concat(secs)) = {root} \cup Below(its, root)
    /\ \A n \in Range(Concat(secs)) : Count(Concat(secs), n) = 1
    \* inside a section: one child, the next node, and no computations
    /\ \A i \in 1..Len(secs) : \A j \in 1..(Len(secs[i]) - 1) :
          /\ its[secs[i][j]].child_iterators = <<secs[i][j + 1]>>
          /\ its[secs[i][j]].computations_list = <<>>
    \* the last node of a section stops the chain
    /\ \A i \in 1..Len(secs) :
          \/ Len(its[Last(secs[i])].computations_list) > 0
          \/ Len(its[Last(secs[i])].child_iterators) = 0
          \/ Len(its[Last(secs[i])].child_iterators) > 1
    \* sections start at the root, then at the children of each section's last
    \* node, in the order the sections are listed
    /\ [i \in 1..Len(secs) |-> secs[i][1]] =
          <<root>> \o Concat([i \in 1..Len(secs) |-> its[Last(secs[i])].child_iterators])

\* C8: on a well-formed forest get_candidate_sections returns, for each root,
\* a partition of that root's tree into maximal linear chains, the root's
\* section first and the sections in breadth-first order of discovery.
C8_SectionsPartition ==
    (op = "get_candidate_sections" /\ WellFormed(roots, iterators)) =>
        /\ DOMAIN result = Range(roots)
        /\ \A root \in Range(roots) : SectionsPartition(iterators, root, result[root])

\* Sections were computed on a tree that has a chain of two nodes and a node
\* with one child that carries a computation.
C8_Witness ==
    /\ op = "get_candidate_sections"
    /\ WellFormed(roots, iterators)
    /\ \E root \in Range(roots) :
          /\ Len(result[root]) >= 3
          /\ \E i \in 1..Len(result[root]) : Len(result[root][i]) >= 2
    /\ \E n \in DOMAIN iterators :
          /\ Len(iterators[n].child_iterators) = 1
          /\ Len(iterators[n].computations_list) > 0
    /\ Len(roots) >= 1

\* ------------------------------------------------------- C4
\* The optimizations one candidate adds.
CandidateActions(root, i) ==
    [j \in 1..Len(candidates_per_root[root][i + 1]) |->
        Parallelization(i, candidates_per_root[root][i + 1][j])]

Accepted(root) == {n \in 1..Len(trials) : trials[n].root = root /\ trials[n].verdict = "legal"}

\* The optimizations of the first candidate of the root whose trial was legal.
FirstLegalActions(root) ==
    IF Accepted(root) = {} THEN <<>>
    ELSE LET n == CHOOSE m \in Accepted(root) : \A l \in Accepted(root) : m <= l
         IN CandidateActions(root, trials[n].index)

OracleAnswered == \A n \in 1..Len(trials) : trials[n].verdict # "fail"

\* C4: under an oracle that answers every call, each candidate is tried on
\* the current best schedule followed by its own optimizations only, and the
\* returned schedule is, over the roots in order, the optimizations of the
\* first legal candidate of each root, with no optimization of a rejected
\* candidate.
C4_TrialsHoldOneCandidate ==
    OracleAnswered =>
        /\ \A n \in 1..Len(trials) :
              trials[n].optims_list =
                 trials[n].best \o CandidateActions(trials[n].root, trials[n].index)
        /\ returned = "schedule" =>
              /\ schedule.optims_list =
                    Concat([root \in 1..Len(candidates_per_root) |-> FirstLegalActions(root)])
              /\ \A n \in 1..Len(trials) :
                    trials[n].verdict = "illegal" =>
                       Range(CandidateActions(trials[n].root, trials[n].index))
                          \cap Range(schedule.optims_list) = {}

\* ------------------------------------------------------- C5
\* C5: the search returns None if and only if no candidate was accepted for
\* any root, and never returns a schedule with no optimization.
C5_NoneIffNothingAccepted ==
    pc = "done" =>
        /\ returned \in {"None", "schedule"}
        /\ (returned = "None") <=> (\A n \in 1..Len(trials) : trials[n].verdict # "legal")
        /\ returned = "schedule" => Len(schedule.optims_list) > 0

\* The search has returned after the oracle rejected every candidate of two
\* roots.
C5_Witness ==
    /\ pc = "done"
    /\ returned = "None"
    /\ Len(candidates_per_root) >= 2
    /\ Len(trials) >= 3
    /\ \A n \in 1..Len(trials) : trials[n].verdict = "illegal"

\* ------------------------------------------------------- C6
\* C6: an oracle call that fails during the search rejects that candidate
\* and the search goes on; the failure does not abort the search.
C6_OracleFailureRejects ==
    (\E n \in 1..Len(trials) : trials[n].verdict = "fail") =>
        (pc # "raised" /\ returned # "raised")

====
